---- MODULE Spec2Model ----
(***************************************************************************)
(* GEDI pipeline QGIS plugin: the download engine (SessionNASA,            *)
(* GEDIDownloader), the orchestrator (GEDIPipeline.run_pipeline) and the   *)
(* worker that hosts it (PipelineWorker.run), as state machines.           *)
(*                                                                         *)
(* Seven specifications share the definitions below:                       *)
(*   SpecRedirect  SessionNASA.rebuild_auth along a chain of redirects     *)
(*   SpecDownload  GEDIDownloader.download_granule, call after call        *)
(*   SpecFiles     GEDIDownloader.download_files over a batch              *)
(*   Spec          PipelineWorker.run hosting GEDIPipeline.run_pipeline    *)
(*   LiveSpec      Spec with a fairly scheduled worker                     *)
(*   SpecSetup     the set-up of a run: ROI, credentials, construction     *)
(*   SpecDialog    GEDIPipelineDialog over several runs and their threads  *)
(***************************************************************************)
EXTENDS Integers, Sequences, FiniteSets, TLC

VARIABLES
    \* ---- SessionNASA, one request followed through its redirects
    rq_url,         \* URL of the request whose response is being handled
    rq_headers,     \* header names carried by that request
    rq_hops,        \* redirects followed so far
    rq_last,        \* <<>> or <<the last rebuild_auth call: inputs and result>>
    \* ---- the output directory (save_path / out_directory)
    fs,             \* file name -> NoFile or File(bytes)
    \* ---- GEDIDownloader.download_granule, the calls made one after another
    dg_calls,       \* number of calls made
    dg_last,        \* the last call: url, response, file before/after, result
    dg_prev,        \* the call before it: url, result, whether it found the file complete
    \* ---- GEDIDownloader.download_files
    df_pc,          \* "idle" | "first" | "retry" | "returned" | "raised"
    files_url,      \* the batch (granule descriptors)
    df_i,           \* position of the for loop in files_url
    retries,        \* the retry counter of the current granule
    df_attempts,    \* per position: the results of its download_granule calls
    \* ---- GEDIPipelineDialog, as far as a running worker sees it
    cancel_event,   \* threading.Event shared by the dialog and the pipeline
    worker_thread,  \* self._worker_thread is set (not None)
    thread_running, \* QThread.isRunning() of that thread
    mainq,          \* signals queued for the dialog's (main) thread
    dialog_result,  \* "open" | "rejected"
    \* ---- PipelineWorker.run and GEDIPipeline.run_pipeline
    pc,             \* position of the worker
    params,         \* what collect_parameters captured for this run
    home,           \* the credential files ~/.netrc and ~/_netrc
    roi,            \* <<>> or <<the ROI: _compute_roi's, then GEDIPipeline.roi>>
    roi_gdf,        \* GEDIPipeline.roi_gdf is set (the polygon file was read)
    prompted,       \* _load_credentials reached input() / getpass()
    find_roi,       \* <<>> or <<the ROI of the Finder when find was called>>
    all_granules,   \* Finder.find's result
    p_i,            \* position of the for loop in all_granules
    returned,       \* <<>> or <<the value run_pipeline returned>>
    error,          \* "" or the exception that left run_pipeline / the set-up
    outcomes,       \* the (success, outputs, error) tuples emitted by finished
    \* ---- what happened to each position of all_granules
    head_cancel,    \* the cancellation signal as it was at the loop head
    entered,        \* positions whose iteration got past the cancellation check
    dl,             \* the results of its download_granule calls
    sub,            \* "none" or the Subsetter's result
    removed,        \* its raw file was deleted by the clean-up step
    head_dir,       \* <<>> or <<its raw file and artifact as they were at its loop head>>
    fs_at_head,     \* the directory as it was at the last loop head
    \* ---- GEDIPipelineDialog over several runs, each with its own thread
    thread_ref,     \* self._worker_thread: 0 (None) or the number of the thread
    running,        \* the threads whose isRunning() is true
    wpc,            \* per worker: its position in PipelineWorker.run
    quit_asked,     \* the threads whose quit() has been called
    events,         \* slots queued for the main thread: <<slot, worker>>
    sys_stdout,     \* sys.stdout: <<>> (the host's stream) or <<i>> (worker i's StreamToSignal)
    stdout_orig,    \* per worker: the stdout_orig it saved
    started,        \* number of workers started so far
    observed,       \* the workers whose run saw the cancellation signal set
    stop_since,     \* the runs during or after which a Stop click set the signal
    refused         \* a Run click was turned away because a run is in progress

\* a file that does not exist; an existing file is its bytes, each tagged with
\* where it came from ("old": on disk before the run, "net": a response body)
NoFile == [exists |-> FALSE, bytes |-> <<>>]
File(bytes) == [exists |-> TRUE, bytes |-> bytes]

\* ------------------------------------------------------------------ bounds
MaxHops == 2        \* redirects followed per request
MaxLen == 2         \* largest content-length and file size, in bytes
MaxCalls == 2       \* download_granule calls in SpecDownload
MaxBatch == 2       \* granules in a download_files batch
MaxGranules == 2    \* granules Finder.find returns
MaxRuns == 2        \* workers started by one dialog

\* ------------------------------------------------------------ URLs & names
\* A URL is its "/"-separated segments; a segment is a sequence of tokens, so
\* that `"GEDI" in filename` and `.replace(".h5", ".gpkg")` are computed.
AUTH_HOST == <<"urs.earthdata.nasa.gov">>

MkUrl(host, filename) == << <<"https:">>, <<>>, host, filename >>

\* url.split("/")[-1]
Filename(url) == url[Len(url)]

marker_unchecked(filename) == TRUE

\* "GEDI" in filename
HasMarker(filename) == \E i \in 1..Len(filename) : filename[i] = "GEDI"

\* filename.replace(".h5", ".gpkg")
ReplaceExt(filename) ==
    [i \in 1..Len(filename) |-> IF filename[i] = ".h5" THEN ".gpkg" ELSE filename[i]]

\* requests.utils.urlparse(url).hostname: the host segment, lower-cased
\* (a host is <<name>> or <<name, "UPPER">> for the same name in capitals)
Hostname(url) == <<url[3][1]>>

\* ------------------------------------------------------------ SessionNASA
HostNames == {"urs.earthdata.nasa.gov", "data.lpdaac.example", "cdn.example"}
Hosts == {<<n>> : n \in HostNames} \cup {<<n, "UPPER">> : n \in HostNames}

GranuleFile == <<"GEDI", "02_A", ".h5">>
RedirectUrls == {MkUrl(h, GranuleFile) : h \in Hosts}

\* requests puts the basic-auth header on the first request because
\* SessionNASA.__init__ sets self.auth
InitialHeaders == {"Authorization", "Accept"}

rebuild_auth_ignoring_original_host(headers, url, response_request_url) ==
    IF "Authorization" \in headers
    THEN IF /\ Hostname(response_request_url) # Hostname(url)
            /\ Hostname(url) # AUTH_HOST
         THEN headers \ {"Authorization"}
         ELSE headers
    ELSE headers

\* SessionNASA.rebuild_auth(prepared_request, response): the headers the
\* follow-up request carries. url is prepared_request.url (the redirect
\* target), response_request_url is response.request.url (the original).
rebuild_auth(headers, url, response_request_url) ==
    IF "Authorization" \in headers
    THEN IF /\ Hostname(response_request_url) # Hostname(url)
            /\ Hostname(url) # AUTH_HOST
            /\ Hostname(response_request_url) # AUTH_HOST
         THEN headers \ {"Authorization"}
         ELSE headers
    ELSE headers

RedirectIdle ==
    /\ rq_url = <<>>
    /\ rq_headers = {}
    /\ rq_hops = 0
    /\ rq_last = <<>>

RedirectInit ==
    /\ rq_url \in RedirectUrls
    /\ rq_headers = InitialHeaders
    /\ rq_hops = 0
    /\ rq_last = <<>>

\* The response to rq_url redirects to target: the session copies the request,
\* points it at target and calls rebuild_auth on it before sending it.
FollowRedirect(target) ==
    /\ rq_url # <<>>
    /\ rq_hops < MaxHops
    /\ rq_headers' = rebuild_auth(rq_headers, target, rq_url)
    /\ rq_url' = target
    /\ rq_hops' = rq_hops + 1
    /\ rq_last' = << [headers |-> rq_headers, original |-> rq_url,
                       redirect |-> target, result |-> rq_headers'] >>

redirect_vars == <<rq_url, rq_headers, rq_hops, rq_last>>

\* ---------------------------------------------------------- HTTP responses
\* What session.get(url, stream=True) and the body iterator can do in one
\* attempt. fault "connect": session.get raises (DNS, TLS, connection reset);
\* fault "stream": iter_content raises after delivering `chunks`; clen -1: no
\* content-length header; chunks: the sizes of the chunks delivered, 0 for a
\* keep-alive chunk. A body delivers up to one byte more than MaxLen, as a
\* keep-alive chunk followed by one-byte chunks.
NoHeader == -1
Body(d) == [i \in 1..(d + 1) |-> IF i = 1 THEN 0 ELSE 1]
ChunkSeqs == {Body(d) : d \in 0..(MaxLen + 1)}
Responses ==
    {[fault |-> "connect", ok |-> FALSE, clen |-> NoHeader, chunks |-> <<>>]}
    \cup {[fault |-> "none", ok |-> FALSE, clen |-> c, chunks |-> <<>>] :
            c \in {NoHeader} \cup 0..MaxLen}
    \cup {[fault |-> f, ok |-> TRUE, clen |-> c, chunks |-> ch] :
            f \in {"none", "stream"}, c \in {NoHeader} \cup 0..MaxLen, ch \in ChunkSeqs}

RECURSIVE Sum(_)
Sum(chunks) == IF chunks = <<>> THEN 0 ELSE chunks[1] + Sum(Tail(chunks))

\* os.path.getsize(file_path)
GetSize(file) == Len(file.bytes)

\* ----------------------------------------------------------- GEDIDownloader
\* GEDIDownloader.__download(content, save_path): open(save_path, "wb")
\* truncates or creates the file, every non-empty chunk is appended.
download(chunks) ==
    [file |-> File([i \in 1..Sum(chunks) |-> "net"]),
     ops  |-> <<"open_wb">> \o [i \in 1..Len(SelectSeq(chunks, LAMBDA c : c > 0)) |-> "write"],
     read |-> Sum(chunks)]

\* precheck_file that never finds the file complete
precheck_always_redownload(file, size) ==
    [ret |-> FALSE, file |-> file, ops |-> <<>>]

\* precheck_file that leaves the stale file in place
precheck_without_delete(file, size) ==
    IF ~file.exists
    THEN [ret |-> FALSE, file |-> file, ops |-> <<>>]
    ELSE IF GetSize(file) # size
    THEN [ret |-> FALSE, file |-> file, ops |-> <<>>]
    ELSE [ret |-> TRUE, file |-> file, ops |-> <<>>]

\* GEDIDownloader.__precheck_file(file_path, size)
precheck_file(file, size) ==
    IF ~file.exists
    THEN [ret |-> FALSE, file |-> file, ops |-> <<>>]
    ELSE IF GetSize(file) # size
    THEN [ret |-> FALSE, file |-> NoFile, ops |-> <<"remove">>]
    ELSE [ret |-> TRUE, file |-> file, ops |-> <<>>]

\* download_granule's last step: re-stat the file and compare with the
\* content-length
integrity_unchecked(file, size) == TRUE

integrity_ok(file, size) == GetSize(file) = size

\* GEDIDownloader.download_granule(url) when the target path holds `file` and
\* the server answers `resp`: the value returned ("raise" when an exception
\* leaves the call), the file afterwards, the body bytes read, the file
\* operations performed and whether a request was issued.
download_granule(file, url, resp) ==
    LET filename == Filename(url) IN
    IF ~HasMarker(filename)
    THEN [ret |-> "false", file |-> file, read |-> 0, ops |-> <<>>, requested |-> FALSE]
    ELSE IF resp.fault = "connect"
    THEN [ret |-> "raise", file |-> file, read |-> 0, ops |-> <<>>, requested |-> TRUE]
    ELSE IF ~resp.ok
    THEN [ret |-> "false", file |-> file, read |-> 0, ops |-> <<>>, requested |-> TRUE]
    ELSE IF resp.clen = NoHeader
    THEN [ret |-> "false", file |-> file, read |-> 0, ops |-> <<>>, requested |-> TRUE]
    ELSE
      LET pre == precheck_file(file, resp.clen) IN
      IF pre.ret
      THEN [ret |-> IF integrity_ok(pre.file, resp.clen) THEN "true" ELSE "false",
            file |-> pre.file, read |-> 0, ops |-> pre.ops, requested |-> TRUE]
      ELSE
        LET got == download(resp.chunks) IN
        [ret |-> IF resp.fault = "stream" THEN "raise"
                 ELSE IF integrity_ok(got.file, resp.clen) THEN "true" ELSE "false",
         file |-> got.file, read |-> got.read, ops |-> pre.ops \o got.ops,
         requested |-> TRUE]

\* ------------------------------------------------------ the output directory
DATA_HOST == <<"data.lpdaac.example">>

\* the i-th granule the repository serves
GranuleUrl(i) == MkUrl(DATA_HOST, <<"GEDI", ToString(i), ".h5">>)

\* a URL whose last segment is no granule file
BadUrl == MkUrl(DATA_HOST, <<"index", ".html">>)

MaxUrls == IF MaxBatch > MaxGranules THEN MaxBatch ELSE MaxGranules
RawNames == {Filename(GranuleUrl(i)) : i \in 1..MaxUrls} \cup {Filename(BadUrl)}
FileNames == RawNames \cup {ReplaceExt(n) : n \in RawNames}

OldFile(n) == File([i \in 1..n |-> "old"])
OldFiles == {NoFile} \cup {OldFile(n) : n \in 0..MaxLen}

\* the directories a call can find: the files named in `names` in any state,
\* nothing else
Directories(names) ==
    {d \in [FileNames -> OldFiles] : \A n \in FileNames \ names : d[n] = NoFile}

\* the call reached the resume/skip check with a file of the expected size
CompleteOnDisk(c) ==
    /\ HasMarker(Filename(c.url))
    /\ c.resp.fault # "connect"
    /\ c.resp.ok
    /\ c.resp.clen # NoHeader
    /\ c.before.exists
    /\ GetSize(c.before) = c.resp.clen

\* the call reached the resume/skip check with a file of another size
StaleOnDisk(c) ==
    /\ HasMarker(Filename(c.url))
    /\ c.resp.fault # "connect"
    /\ c.resp.ok
    /\ c.resp.clen # NoHeader
    /\ c.before.exists
    /\ GetSize(c.before) # c.resp.clen

\* One download_granule call against the directory: the file at the target
\* path changes as the call changes it, and the call is recorded.
Attempt(url, resp) ==
    LET target == Filename(url)
        r == download_granule(fs[target], url, resp)
    IN  fs' = [fs EXCEPT ![target] = r.file]

AttemptResult(url, resp) == download_granule(fs[Filename(url)], url, resp).ret

DownloadIdle ==
    /\ dg_calls = 0
    /\ dg_last = <<>>
    /\ dg_prev = <<>>

\* ---- download_granule called from outside, one call after another
DownloadUrls == {GranuleUrl(1), BadUrl}

CallDownloadGranule(url, resp) ==
    /\ dg_calls < MaxCalls
    /\ dg_calls' = dg_calls + 1
    /\ Attempt(url, resp)
    /\ LET before == fs[Filename(url)]
           r == download_granule(before, url, resp)
       IN  /\ dg_last' = << [url |-> url, resp |-> resp, before |-> before,
                             after |-> r.file, ret |-> r.ret, read |-> r.read,
                             ops |-> r.ops, requested |-> r.requested] >>
           /\ dg_prev' = IF dg_last = <<>> THEN <<>>
                         ELSE << [url |-> dg_last[1].url, ret |-> dg_last[1].ret,
                                  complete |-> CompleteOnDisk(dg_last[1])] >>

download_vars == <<fs, dg_calls, dg_last, dg_prev>>

\* ---- GEDIDownloader.download_files(files_url)
RETRIES == 3

\* a granule descriptor: g[0] is the URL
Granule(url) == <<url>>

BatchUrls == {GranuleUrl(1), GranuleUrl(2), BadUrl}
Batches == UNION {[1..n -> {Granule(u) : u \in BatchUrls}] : n \in 0..MaxBatch}

FilesIdle ==
    /\ df_pc = "idle"
    /\ files_url = <<>>
    /\ df_i = 0
    /\ retries = 0
    /\ df_attempts = <<>>

FilesInit ==
    /\ df_pc = "first"
    /\ files_url \in Batches
    /\ df_i = 1
    /\ retries = 0
    /\ df_attempts = [i \in 1..Len(files_url) |-> <<>>]

\* the for loop is past the last granule: return files_url
FilesReturn ==
    /\ df_pc = "first"
    /\ df_i > Len(files_url)
    /\ df_pc' = "returned"
    /\ UNCHANGED <<fs, dg_calls, dg_last, dg_prev, files_url, df_i, retries, df_attempts>>

\* line 156: the first attempt for files_url[df_i]
FilesFirstAttempt(resp) ==
    /\ df_pc = "first"
    /\ df_i <= Len(files_url)
    /\ LET url == files_url[df_i][1]
           ret == AttemptResult(url, resp)
       IN  /\ Attempt(url, resp)
           /\ df_attempts' = [df_attempts EXCEPT ![df_i] = Append(@, ret)]
           /\ CASE ret = "true"  -> /\ df_i' = df_i + 1
                                    /\ UNCHANGED <<df_pc, retries>>
                [] ret = "false" -> /\ retries' = RETRIES
                                    /\ df_pc' = "retry"
                                    /\ UNCHANGED df_i
                [] ret = "raise" -> /\ df_pc' = "raised"
                                    /\ UNCHANGED <<df_i, retries>>
    /\ UNCHANGED <<dg_calls, dg_last, dg_prev, files_url>>

\* lines 159-165: one turn of `while retries > 0`, and the exit of the loop
FilesRetry(resp) ==
    /\ df_pc = "retry"
    /\ retries > 0
    /\ LET url == files_url[df_i][1]
           ret == AttemptResult(url, resp)
       IN  /\ Attempt(url, resp)
           /\ df_attempts' = [df_attempts EXCEPT ![df_i] = Append(@, ret)]
           /\ CASE ret = "true"  -> /\ df_i' = df_i + 1
                                    /\ df_pc' = "first"
                                    /\ UNCHANGED retries
                [] ret = "false" -> /\ retries' = retries - 1
                                    /\ IF retries' > 0
                                       THEN UNCHANGED <<df_pc, df_i>>
                                       ELSE df_pc' = "first" /\ df_i' = df_i + 1
                [] ret = "raise" -> /\ df_pc' = "raised"
                                    /\ UNCHANGED <<df_i, retries>>
    /\ UNCHANGED <<dg_calls, dg_last, dg_prev, files_url>>

files_vars == <<df_pc, files_url, df_i, retries, df_attempts>>

\* ------------------------------------------- PipelineWorker / GEDIPipeline
\* a QgsRectangle as far as the worker looks at it: isFinite() is false for a
\* NaN or infinite bound only, so the empty rectangle of a layer without
\* features is finite
Extents == {"nonfinite", "empty", "finite"}
isFinite(extent) == extent # "nonfinite"

\* What collect_parameters captured: the layer the combo box points at ("none"
\* or the extent of that layer), the selected-features check box, the bounding
\* box of the layer's selected features ("none": nothing is selected), the text
\* of the polygon path field, whether a user name and a password were typed,
\* the output directory on disk and the keep-original check box.
Params ==
    [layer : {"none"} \cup Extents,
     selected_only : BOOLEAN,
     selection : {"none", "nonfinite", "finite"},
     polygon_source : {"", "file"},
     earthdata : BOOLEAN,
     out_dir : {"exists", "creatable", "uncreatable"},
     keep_original : BOOLEAN]

\* ~/.netrc and ~/_netrc: absent, of size 0, holding no entry for the auth
\* host, not parsable as a netrc file, or holding an entry for the auth host
NetrcFiles == {".netrc", "_netrc"}
NetrcStates == {"absent", "empty", "noentry", "unparsable", "entry"}
Homes == [NetrcFiles -> NetrcStates]

\* GEDIPipelineDialog._has_credentials
has_credentials(p, h) ==
    \/ p.earthdata
    \/ \E f \in NetrcFiles : h[f] \notin {"absent", "empty"}

\* GEDIPipelineDialog.on_run_clicked: the checks a click on Run has to pass
\* (the output folder is chosen in every run modelled here)
run_accepted(p, h) ==
    /\ p.layer # "none" \/ p.polygon_source # ""
    /\ has_credentials(p, h)

\* PipelineWorker._compute_roi: the exception it raises ("": none) and the ROI
\* it returns, tagged with the rectangle it was taken from
compute_roi(p) ==
    IF p.layer = "none"
    THEN [raise |-> "No polygon layer selected.", roi |-> <<>>]
    ELSE IF p.selected_only /\ p.selection # "none" /\ ~isFinite(p.selection)
    THEN [raise |-> "Selected features have no valid extent.", roi |-> <<>>]
    ELSE LET selected == p.selected_only /\ p.selection # "none"
             extent == IF selected THEN p.selection ELSE p.layer
         IN  IF ~isFinite(extent)
             THEN [raise |-> "Layer extent is not valid.", roi |-> <<>>]
             ELSE [raise |-> "",
                   roi |-> <<[from |-> IF selected THEN "selected" ELSE "layer",
                              extent |-> extent]>>]

\* PipelineWorker._prepare_netrc: with a typed user name and password, write
\* an entry for the auth host to ~/.netrc (and to ~/_netrc on Windows); a
\* write that fails is logged and leaves the file as it was
prepare_netrc(p, h, nt, writable) ==
    IF ~p.earthdata
    THEN h
    ELSE [f \in NetrcFiles |->
            IF (f = ".netrc" \/ nt) /\ writable THEN "entry" ELSE h[f]]

\* SessionNASA._load_credentials, called without arguments by GEDIDownloader:
\* TRUE when one of the two files yields an entry for the auth host, FALSE
\* when it falls through to input() / getpass()
load_credentials(h) == \E f \in NetrcFiles : h[f] = "entry"

\* GEDIPipeline.__init__ lines 27-47: the ROI list that was passed in, replaced
\* by the total bounds of the polygon file when roi_path is set and the file
\* can be read; a read that fails is printed and the ROI stays what it was
init_roi(given, roi_path, readable) ==
    IF roi_path # "" /\ readable
    THEN <<[from |-> "polygon", extent |-> "finite"]>>
    ELSE given

\* Finder.find: the granules discovered, in discovery order
GranuleLists == {[i \in 1..n |-> Granule(GranuleUrl(i))] : n \in 0..MaxGranules}

\* the raw file run_pipeline downloads a granule to, and the artifact the
\* Subsetter derives from it
RawName(g) == Filename(g[1])
ArtifactName(g) == ReplaceExt(Filename(g[1]))

\* the artifact the Subsetter writes
Artifact == File(<<"subset">>)

\* GEDISubsetter.subset: it writes the artifact ("ok"), reports a failure
\* without writing one ("fail") or raises ("raise")
SubsetResults == {"ok", "fail", "raise"}

\* The servers a run meets: a granule is MaxLen bytes long and a body is
\* delivered in full or one byte short; faults, refusals and a missing
\* content-length as in Responses.
PipelineResponses ==
    {r \in Responses : /\ r.clen \in {NoHeader, MaxLen}
                       /\ r.ok => Sum(r.chunks) \in {MaxLen - 1, MaxLen}}

\* The output directories a run finds: per granule the raw file is absent,
\* stale (one byte short) or complete, and its artifact is absent or there.
PipelineDirectories ==
    {d \in [FileNames -> {NoFile, OldFile(MaxLen - 1), OldFile(MaxLen), OldFile(1)}] :
        \A n \in FileNames :
            IF \E i \in 1..MaxGranules : n = Filename(GranuleUrl(i))
            THEN d[n] \in {NoFile, OldFile(MaxLen - 1), OldFile(MaxLen)}
            ELSE IF \E i \in 1..MaxGranules : n = ReplaceExt(Filename(GranuleUrl(i)))
            THEN d[n] \in {NoFile, OldFile(1)}
            ELSE d[n] = NoFile}

\* PipelineWorker._collect_outputs: out_dir.glob("*.gpkg")
collect_outputs(dir) ==
    {n \in FileNames : dir[n].exists /\ n[Len(n)] = ".gpkg"}

cancel_never_seen(event) == FALSE

\* on_run_clicked line 277 and on_cancel_close lines 425-429: the dialog holds
\* a thread and that thread is running
worker_active(thread_set, is_running) == thread_set /\ is_running

not_cleared(event) == event

\* on_run_clicked line 283: self._cancel_event.clear()
cleared(event) == FALSE

\* the dialog right after its construction: no thread, the signal clear, no
\* worker started, the host's streams in place
Workers == 1..MaxRuns
RunsIdle ==
    /\ thread_ref = 0
    /\ running = {}
    /\ wpc = [i \in Workers |-> "idle"]
    /\ quit_asked = {}
    /\ events = <<>>
    /\ sys_stdout = <<>>
    /\ stdout_orig = [i \in Workers |-> <<>>]
    /\ started = 0
    /\ observed = {}
    /\ stop_since = {}
    /\ refused = FALSE

runs_vars == <<thread_ref, running, wpc, quit_asked, events, sys_stdout, stdout_orig,
               started, observed, stop_since, refused>>

\* self.cancel_event is not None and self.cancel_event.is_set()
cancel_requested(event) == event

never_subsetted(dir, g) == FALSE

\* line 93: os.path.exists(out_directory / file name with .h5 -> .gpkg)
already_subsetted(dir, g) == dir[ArtifactName(g)].exists

subset_whatever_download(result) ==
    IF result = "raise" THEN "raised" ELSE "subset"

\* lines 98-110: where run_pipeline goes after download_granule: on to the
\* Subsetter when it returned true, into the retry block when it returned
\* false, out of run_pipeline when it raised
after_download(result) ==
    CASE result = "true"  -> "subset"
      [] result = "false" -> "retry"
      [] result = "raise" -> "raised"

finished_always_success(ok, dir, message) ==
    [success |-> TRUE, outputs |-> collect_outputs(dir), error |-> ""]

\* PipelineWorker.run lines 60-63: the arguments of finished.emit
finished_outcome(ok, dir, message) ==
    IF ok
    THEN [success |-> TRUE, outputs |-> collect_outputs(dir), error |-> ""]
    ELSE [success |-> FALSE, outputs |-> {}, error |-> message]

PipelineIdle ==
    /\ cancel_event = FALSE
    /\ worker_thread = FALSE
    /\ thread_running = FALSE
    /\ mainq = <<>>
    /\ dialog_result = "open"
    /\ pc = "idle"
    /\ params = [layer |-> "none", selected_only |-> FALSE, selection |-> "none",
                 polygon_source |-> "", earthdata |-> FALSE,
                 out_dir |-> "exists", keep_original |-> FALSE]
    /\ home = [f \in NetrcFiles |-> "absent"]
    /\ roi = <<>>
    /\ roi_gdf = FALSE
    /\ prompted = FALSE
    /\ find_roi = <<>>
    /\ all_granules = <<>>
    /\ p_i = 0
    /\ returned = <<>>
    /\ error = ""
    /\ outcomes = <<>>
    /\ head_cancel = <<>>
    /\ entered = {}
    /\ dl = <<>>
    /\ sub = <<>>
    /\ removed = <<>>
    /\ head_dir = <<>>
    /\ fs_at_head = [n \in FileNames |-> NoFile]
    /\ RunsIdle

\* on_run_clicked has passed its checks, cleared the cancellation signal and
\* _start_worker has started the thread: PipelineWorker.run is about to begin.
PipelineInit(ParamSet, HomeSet) ==
    /\ cancel_event = FALSE
    /\ worker_thread = TRUE
    /\ thread_running = TRUE
    /\ mainq = <<>>
    /\ dialog_result = "open"
    /\ pc = "setup"
    /\ params \in ParamSet
    /\ home \in HomeSet
    /\ run_accepted(params, home)
    /\ roi = <<>>
    /\ roi_gdf = FALSE
    /\ prompted = FALSE
    /\ find_roi = <<>>
    /\ all_granules = <<>>
    /\ p_i = 0
    /\ returned = <<>>
    /\ error = ""
    /\ outcomes = <<>>
    /\ head_cancel = <<>>
    /\ entered = {}
    /\ dl = <<>>
    /\ sub = <<>>
    /\ removed = <<>>
    /\ head_dir = <<>>
    /\ fs_at_head = [n \in FileNames |-> NoFile]
    /\ RunsIdle

dialog_vars == <<cancel_event, worker_thread, thread_running, mainq, dialog_result>>
history_vars == <<head_cancel, entered, dl, sub, removed, head_dir, fs_at_head>>
setup_vars == <<home, roi, roi_gdf, prompted>>
run_vars == <<pc, params, setup_vars, find_roi, all_granules, p_i, returned, error, outcomes>>

\* an exception leaves the try block of PipelineWorker.run
Raise(what) ==
    /\ pc' = "raised"
    /\ error' = what

\* PipelineWorker.run line 55: roi = self._compute_roi()
ComputeRoi ==
    /\ pc = "setup"
    /\ LET r == compute_roi(params)
       IN  IF r.raise # ""
           THEN Raise(r.raise) /\ UNCHANGED roi
           ELSE pc' = "netrc" /\ roi' = r.roi /\ UNCHANGED error
    /\ UNCHANGED <<fs, dialog_vars, history_vars, params, home, roi_gdf, prompted,
                   find_roi, all_granules, p_i, returned, outcomes>>

\* PipelineWorker.run line 56: self._prepare_netrc(), on a Windows host (nt)
\* or not, with a home directory it can write to or not
PrepareNetrc(nt, writable) ==
    /\ pc = "netrc"
    /\ home' = prepare_netrc(params, home, nt, writable)
    /\ pc' = "build"
    /\ UNCHANGED <<fs, dialog_vars, history_vars, params, roi, roi_gdf, prompted,
                   find_roi, all_granules, p_i, returned, error, outcomes>>

\* GEDIPipeline.__init__ lines 78-80, after the Finder, the Downloader and the
\* Subsetter have been constructed: make the output directory if it is missing
MakeOutDirectory ==
    IF params.out_dir = "uncreatable"
    THEN Raise("mkdir failed")
    ELSE pc' = "find" /\ UNCHANGED error

\* PipelineWorker.run line 57: self._build_pipeline(roi), that is the look-up
\* of the framework folder and GEDIPipeline.__init__: the ROI, the Finder, the
\* Downloader with its SessionNASA (which looks for credentials and stops at
\* the prompt when it finds none), the Subsetter and the output directory
BuildPipeline(framework_found, readable) ==
    /\ pc = "build"
    /\ IF ~framework_found
       THEN /\ Raise("Could not locate GEDI framework folder")
            /\ UNCHANGED <<roi, roi_gdf, prompted>>
       ELSE /\ roi' = init_roi(roi, params.polygon_source, readable)
            /\ roi_gdf' = (params.polygon_source # "" /\ readable)
            /\ IF load_credentials(home)
               THEN MakeOutDirectory /\ UNCHANGED prompted
               ELSE pc' = "prompt" /\ prompted' = TRUE /\ UNCHANGED error
    /\ UNCHANGED <<fs, dialog_vars, history_vars, params, home,
                   find_roi, all_granules, p_i, returned, outcomes>>

\* SessionNASA._load_credentials lines 34-37: input() and getpass.getpass() in
\* the worker thread of the GUI: either somebody answers on the terminal the
\* host was started from, or the read raises (no stdin, end of file); with
\* nobody at the terminal the worker stays here for good
Prompt(answered) ==
    /\ pc = "prompt"
    /\ IF answered
       THEN MakeOutDirectory
       ELSE Raise("input(): lost sys.stdin")
    /\ UNCHANGED <<fs, dialog_vars, history_vars, params, setup_vars,
                   find_roi, all_granules, p_i, returned, outcomes>>

\* line 85: all_granules = self.finder.find(...)
Find(granules) ==
    /\ pc = "find"
    /\ find_roi' = roi
    /\ all_granules' = granules
    /\ p_i' = 1
    /\ head_cancel' = [i \in 1..Len(granules) |-> "unseen"]
    /\ entered' = {}
    /\ dl' = [i \in 1..Len(granules) |-> <<>>]
    /\ sub' = [i \in 1..Len(granules) |-> "none"]
    /\ removed' = [i \in 1..Len(granules) |-> FALSE]
    /\ head_dir' = [i \in 1..Len(granules) |-> <<>>]
    /\ pc' = "loop"
    /\ UNCHANGED <<fs, fs_at_head, dialog_vars, params, setup_vars, returned, error, outcomes>>

\* lines 88-95 and 116: the head of the for loop: the end of the list, the
\* cancellation check and the skip check
LoopHead ==
    /\ pc = "loop"
    /\ fs_at_head' = fs
    /\ IF p_i > Len(all_granules)
       THEN /\ pc' = "returned"
            /\ returned' = <<all_granules>>
            /\ UNCHANGED <<p_i, head_cancel, entered, head_dir>>
       ELSE /\ head_cancel' = [head_cancel EXCEPT ![p_i] = IF cancel_event THEN "set" ELSE "clear"]
            /\ head_dir' = [head_dir EXCEPT ![p_i] =
                    <<[raw |-> fs[RawName(all_granules[p_i])],
                       artifact |-> fs[ArtifactName(all_granules[p_i])].exists]>>]
            /\ IF cancel_requested(cancel_event)
               THEN /\ pc' = "returned"
                    /\ returned' = <<all_granules>>
                    /\ UNCHANGED <<p_i, entered>>
               ELSE /\ entered' = entered \cup {p_i}
                    /\ UNCHANGED returned
                    /\ IF already_subsetted(fs, all_granules[p_i])
                       THEN p_i' = p_i + 1 /\ UNCHANGED pc
                       ELSE pc' = "download" /\ UNCHANGED p_i
    /\ UNCHANGED <<fs, dialog_vars, params, setup_vars, find_roi, all_granules,
                   error, outcomes, dl, sub, removed>>

\* line 98: self.downloader.download_granule(g[0])
Download(resp) ==
    /\ pc = "download"
    /\ LET url == all_granules[p_i][1]
           result == AttemptResult(url, resp)
       IN  /\ Attempt(url, resp)
           /\ dl' = [dl EXCEPT ![p_i] = Append(@, result)]
           /\ IF after_download(result) = "raised"
              THEN Raise("transport fault")
              ELSE pc' = after_download(result) /\ UNCHANGED error
    /\ UNCHANGED <<dialog_vars, params, setup_vars, find_roi, all_granules, p_i,
                   returned, outcomes, head_cancel, entered, sub, removed,
                   head_dir, fs_at_head>>

\* lines 99-101: retries = 3, then `for r in retries` iterates over an int:
\* TypeError, before any retry is made
RetryLoop ==
    /\ pc = "retry"
    /\ Raise("TypeError: 'int' object is not iterable")
    /\ UNCHANGED <<fs, dialog_vars, history_vars, params, setup_vars, find_roi,
                   all_granules, p_i, returned, outcomes>>

\* line 110: self.subsetter.subset(raw file); its result is not looked at
Subset(result) ==
    /\ pc = "subset"
    /\ sub' = [sub EXCEPT ![p_i] = result]
    /\ CASE result = "ok"    -> /\ fs' = [fs EXCEPT ![ArtifactName(all_granules[p_i])] = Artifact]
                                /\ pc' = "cleanup"
                                /\ UNCHANGED error
         [] result = "fail"  -> /\ pc' = "cleanup"
                                /\ UNCHANGED <<fs, error>>
         [] result = "raise" -> /\ Raise("subset failed")
                                /\ UNCHANGED fs
    /\ UNCHANGED <<dialog_vars, params, setup_vars, find_roi, all_granules, p_i,
                   returned, outcomes, head_cancel, entered, dl, removed,
                   head_dir, fs_at_head>>

delete_original_always(keep_original_file) == TRUE

\* line 113: if not self.keep_original_file
delete_original(keep_original_file) == ~keep_original_file

\* lines 113-114: delete the raw file unless keep_original_file
Cleanup ==
    /\ pc = "cleanup"
    /\ IF delete_original(params.keep_original)
       THEN /\ fs' = [fs EXCEPT ![RawName(all_granules[p_i])] = NoFile]
            /\ removed' = [removed EXCEPT ![p_i] = TRUE]
       ELSE UNCHANGED <<fs, removed>>
    /\ p_i' = p_i + 1
    /\ pc' = "loop"
    /\ UNCHANGED <<dialog_vars, params, setup_vars, find_roi, all_granules,
                   returned, error, outcomes, head_cancel, entered, dl, sub,
                   head_dir, fs_at_head>>

\* PipelineWorker.run lines 60-63: finished.emit(True, outputs, "") after
\* run_pipeline returned, finished.emit(False, [], str(e)) after an exception.
\* The dialog's slot and the thread's quit are queued for the main thread.
EmitFinished ==
    /\ pc \in {"returned", "raised"}
    /\ outcomes' = Append(outcomes, finished_outcome(pc = "returned", fs, error))
    /\ mainq' = mainq \o <<"on_worker_finished", "quit">>
    /\ pc' = "emitted"
    /\ UNCHANGED <<fs, cancel_event, worker_thread, thread_running, dialog_result,
                   history_vars, params, setup_vars, find_roi, all_granules, p_i,
                   returned, error>>

\* GEDIPipelineDialog.on_worker_finished, run by the main thread
on_worker_finished ==
    /\ mainq # <<>>
    /\ Head(mainq) = "on_worker_finished"
    /\ mainq' = Tail(mainq)
    /\ worker_thread' = FALSE
    /\ UNCHANGED <<fs, cancel_event, thread_running, dialog_result, history_vars, run_vars>>

\* QThread.quit, run by the main thread: the worker's thread ends
ThreadQuit ==
    /\ mainq # <<>>
    /\ Head(mainq) = "quit"
    /\ mainq' = Tail(mainq)
    /\ thread_running' = FALSE
    /\ UNCHANGED <<fs, cancel_event, worker_thread, dialog_result, history_vars, run_vars>>

\* GEDIPipelineDialog.on_cancel_close: the Stop / Close button
on_cancel_close ==
    /\ dialog_result = "open"
    /\ IF worker_active(worker_thread, thread_running)
       THEN cancel_event' = TRUE /\ UNCHANGED dialog_result
       ELSE dialog_result' = "rejected" /\ UNCHANGED cancel_event
    /\ UNCHANGED <<fs, worker_thread, thread_running, mainq, history_vars, run_vars>>

pipeline_vars == <<dialog_vars, run_vars, history_vars, runs_vars>>

\* ---- the dialog over several runs
\* What the actions below leave alone: the single-run view of the worker and
\* everything of the download engine.
runs_frame == <<rq_url, rq_headers, rq_hops, rq_last, fs, dg_calls, dg_last, dg_prev,
                df_pc, files_url, df_i, retries, df_attempts,
                worker_thread, thread_running, mainq, run_vars, history_vars>>

\* GEDIPipelineDialog.on_run_clicked with parameters that pass its checks:
\* turned away while the dialog's thread is running, else the signal is cleared
\* and _start_worker starts a new thread
OnRunClicked ==
    /\ dialog_result = "open"
    /\ started < MaxRuns
    /\ IF worker_active(thread_ref # 0, thread_ref \in running)
       THEN /\ refused' = TRUE
            /\ UNCHANGED <<cancel_event, thread_ref, running, wpc, started>>
       ELSE /\ cancel_event' = cleared(cancel_event)
            /\ started' = started + 1
            /\ thread_ref' = started + 1
            /\ running' = running \cup {started + 1}
            /\ wpc' = [wpc EXCEPT ![started + 1] = "started"]
            /\ UNCHANGED refused
    /\ UNCHANGED <<dialog_result, quit_asked, events, sys_stdout, stdout_orig,
                   observed, stop_since, runs_frame>>

\* PipelineWorker.run line 51: stdout_orig, stderr_orig = sys.stdout, sys.stderr
SaveStreams(i) ==
    /\ wpc[i] = "started"
    /\ stdout_orig' = [stdout_orig EXCEPT ![i] = sys_stdout]
    /\ wpc' = [wpc EXCEPT ![i] = "redirect"]
    /\ UNCHANGED <<cancel_event, dialog_result, thread_ref, running, quit_asked, events,
                   sys_stdout, started, observed, stop_since, refused, runs_frame>>

\* lines 52-53: sys.stdout = StreamToSignal(self.log), and sys.stderr
RedirectStreams(i) ==
    /\ wpc[i] = "redirect"
    /\ sys_stdout' = <<i>>
    /\ wpc' = [wpc EXCEPT ![i] = "try"]
    /\ UNCHANGED <<cancel_event, dialog_result, thread_ref, running, quit_asked, events,
                   stdout_orig, started, observed, stop_since, refused, runs_frame>>

\* lines 55-60 when a loop head of run_pipeline finds the signal set: the loop
\* breaks and run_pipeline returns
SeeCancelled(i) ==
    /\ wpc[i] = "try"
    /\ cancel_requested(cancel_event)
    /\ observed' = observed \cup {i}
    /\ wpc' = [wpc EXCEPT ![i] = "emit"]
    /\ UNCHANGED <<cancel_event, dialog_result, thread_ref, running, quit_asked, events,
                   sys_stdout, stdout_orig, started, stop_since, refused, runs_frame>>

\* lines 55-60 otherwise: the try block ends, by run_pipeline returning after
\* its last loop head or by an exception
RunEnds(i) ==
    /\ wpc[i] = "try"
    /\ wpc' = [wpc EXCEPT ![i] = "emit"]
    /\ UNCHANGED <<cancel_event, dialog_result, thread_ref, running, quit_asked, events,
                   sys_stdout, stdout_orig, started, observed, stop_since, refused, runs_frame>>

\* lines 61 / 63: finished.emit: on_worker_finished and the thread's quit
\* (connected in _start_worker, in that order) are queued for the main thread
EmitFinishedSignal(i) ==
    /\ wpc[i] = "emit"
    /\ events' = events \o << <<"on_worker_finished", i>>, <<"quit", i>> >>
    /\ wpc' = [wpc EXCEPT ![i] = "finally"]
    /\ UNCHANGED <<cancel_event, dialog_result, thread_ref, running, quit_asked,
                   sys_stdout, stdout_orig, started, observed, stop_since, refused, runs_frame>>

\* lines 64-66: finally: sys.stdout = stdout_orig, and sys.stderr
RestoreStreams(i) ==
    /\ wpc[i] = "finally"
    /\ sys_stdout' = stdout_orig[i]
    /\ wpc' = [wpc EXCEPT ![i] = "returned"]
    /\ UNCHANGED <<cancel_event, dialog_result, thread_ref, running, quit_asked, events,
                   stdout_orig, started, observed, stop_since, refused, runs_frame>>

\* GEDIPipelineDialog.on_worker_finished, run by the main thread:
\* self._worker_thread = None
OnWorkerFinished ==
    /\ events # <<>>
    /\ Head(events)[1] = "on_worker_finished"
    /\ events' = Tail(events)
    /\ thread_ref' = 0
    /\ UNCHANGED <<cancel_event, dialog_result, running, wpc, quit_asked, sys_stdout,
                   stdout_orig, started, observed, stop_since, refused, runs_frame>>

\* QThread.quit, run by the main thread: the thread's event loop is told to end
OnQuit ==
    /\ events # <<>>
    /\ Head(events)[1] = "quit"
    /\ events' = Tail(events)
    /\ quit_asked' = quit_asked \cup {Head(events)[2]}
    /\ UNCHANGED <<cancel_event, dialog_result, thread_ref, running, wpc, sys_stdout,
                   stdout_orig, started, observed, stop_since, refused, runs_frame>>

\* the thread ends: run has returned to the thread's event loop and the loop
\* has been told to quit; isRunning() is false from here on
ThreadEnds(i) ==
    /\ wpc[i] = "returned"
    /\ i \in quit_asked
    /\ running' = running \ {i}
    /\ wpc' = [wpc EXCEPT ![i] = "done"]
    /\ UNCHANGED <<cancel_event, dialog_result, thread_ref, quit_asked, events, sys_stdout,
                   stdout_orig, started, observed, stop_since, refused, runs_frame>>

\* GEDIPipelineDialog.on_cancel_close: Stop while the dialog's thread is
\* running, Close otherwise
OnCancelClose ==
    /\ dialog_result = "open"
    /\ IF worker_active(thread_ref # 0, thread_ref \in running)
       THEN /\ cancel_event' = TRUE
            /\ stop_since' = stop_since \cup {started}
            /\ UNCHANGED dialog_result
       ELSE /\ dialog_result' = "rejected"
            /\ UNCHANGED <<cancel_event, stop_since>>
    /\ UNCHANGED <<thread_ref, running, wpc, quit_asked, events, sys_stdout,
                   stdout_orig, started, observed, refused, runs_frame>>

\* --------------------------------------------------------- specifications
vars == <<rq_url, rq_headers, rq_hops, rq_last, fs, dg_calls, dg_last, dg_prev,
          df_pc, files_url, df_i, retries, df_attempts,
          cancel_event, worker_thread, thread_running, mainq, dialog_result,
          pc, params, home, roi, roi_gdf, prompted, find_roi,
          all_granules, p_i, returned, error, outcomes,
          head_cancel, entered, dl, sub, removed, head_dir, fs_at_head,
          thread_ref, running, wpc, quit_asked, events, sys_stdout, stdout_orig,
          started, observed, stop_since, refused>>

other_vars == <<redirect_vars, dg_calls, dg_last, dg_prev, files_vars, runs_vars>>

\* The runs Spec follows through run_pipeline: started on a layer and its
\* source file with a typed user name and password, no credential file in the
\* home directory yet, on a host that is not Windows.
RunParams ==
    {p \in Params : /\ p.layer # "empty"
                    /\ ~p.selected_only
                    /\ p.selection = "none"
                    /\ p.polygon_source = "file"
                    /\ p.earthdata}

\* the output directory a run finds: nothing in a directory that is still to be
\* created, else stale or complete raw files and artifacts of earlier runs
InitPipeline ==
    /\ RedirectIdle
    /\ DownloadIdle
    /\ FilesIdle
    /\ fs \in PipelineDirectories
    /\ PipelineInit(RunParams, {[f \in NetrcFiles |-> "absent"]})
    /\ params.out_dir # "exists" => \A n \in FileNames : fs[n] = NoFile

Next ==
    \/ ComputeRoi /\ UNCHANGED other_vars
    \/ \E writable \in BOOLEAN : PrepareNetrc(FALSE, writable) /\ UNCHANGED other_vars
    \/ \E found \in BOOLEAN : BuildPipeline(found, TRUE) /\ UNCHANGED other_vars
    \/ \E answered \in BOOLEAN : Prompt(answered) /\ UNCHANGED other_vars
    \/ \E granules \in GranuleLists : Find(granules) /\ UNCHANGED other_vars
    \/ LoopHead /\ UNCHANGED other_vars
    \/ \E resp \in PipelineResponses : Download(resp) /\ UNCHANGED other_vars
    \/ RetryLoop /\ UNCHANGED other_vars
    \/ \E result \in SubsetResults : Subset(result) /\ UNCHANGED other_vars
    \/ Cleanup /\ UNCHANGED other_vars
    \/ EmitFinished /\ UNCHANGED other_vars
    \/ on_worker_finished /\ UNCHANGED other_vars
    \/ ThreadQuit /\ UNCHANGED other_vars
    \/ on_cancel_close /\ UNCHANGED other_vars

Spec == InitPipeline /\ [][Next]_vars

\* The same worker with fair scheduling: a step of the worker thread that can
\* be taken is taken, every call the worker makes comes back (it returns or
\* raises), and a slot queued for the main thread is run. Nothing makes
\* anybody press Stop or answer the credential prompt.
WorkerStep ==
    \/ ComputeRoi
    \/ \E writable \in BOOLEAN : PrepareNetrc(FALSE, writable)
    \/ \E found \in BOOLEAN : BuildPipeline(found, TRUE)
    \/ \E granules \in GranuleLists : Find(granules)
    \/ LoopHead
    \/ \E resp \in PipelineResponses : Download(resp)
    \/ RetryLoop
    \/ \E result \in SubsetResults : Subset(result)
    \/ Cleanup
    \/ EmitFinished

LiveSpec ==
    /\ Spec
    /\ WF_vars(WorkerStep /\ UNCHANGED other_vars)
    /\ WF_vars((on_worker_finished \/ ThreadQuit) /\ UNCHANGED other_vars)

\* The set-up of a run under every combination of parameters, credential
\* files and host that on_run_clicked lets through; the run that follows it
\* finds an empty output directory and at most one granule.
SetupGranuleLists == {g \in GranuleLists : Len(g) <= 1}
SetupResponses ==
    {r \in PipelineResponses : /\ r.fault = "none"
                               /\ r.clen = MaxLen
                               /\ r.ok => Sum(r.chunks) = MaxLen}

InitSetup ==
    /\ RedirectIdle
    /\ DownloadIdle
    /\ FilesIdle
    /\ fs = [n \in FileNames |-> NoFile]
    /\ PipelineInit({p \in Params : ~p.keep_original}, Homes)

NextSetup ==
    \/ ComputeRoi /\ UNCHANGED other_vars
    \/ \E nt, writable \in BOOLEAN : PrepareNetrc(nt, writable) /\ UNCHANGED other_vars
    \/ \E found, readable \in BOOLEAN : BuildPipeline(found, readable) /\ UNCHANGED other_vars
    \/ \E answered \in BOOLEAN : Prompt(answered) /\ UNCHANGED other_vars
    \/ \E granules \in SetupGranuleLists : Find(granules) /\ UNCHANGED other_vars
    \/ LoopHead /\ UNCHANGED other_vars
    \/ \E resp \in SetupResponses : Download(resp) /\ UNCHANGED other_vars
    \/ RetryLoop /\ UNCHANGED other_vars
    \/ \E result \in SubsetResults : Subset(result) /\ UNCHANGED other_vars
    \/ Cleanup /\ UNCHANGED other_vars
    \/ EmitFinished /\ UNCHANGED other_vars
    \/ on_worker_finished /\ UNCHANGED other_vars
    \/ ThreadQuit /\ UNCHANGED other_vars
    \/ on_cancel_close /\ UNCHANGED other_vars

SpecSetup == InitSetup /\ [][NextSetup]_vars

InitRedirect ==
    /\ RedirectInit
    /\ fs \in Directories({})
    /\ DownloadIdle
    /\ FilesIdle
    /\ PipelineIdle

NextRedirect ==
    \E target \in RedirectUrls :
        FollowRedirect(target) /\ UNCHANGED <<download_vars, files_vars, pipeline_vars>>

SpecRedirect == InitRedirect /\ [][NextRedirect]_vars

InitDownload ==
    /\ RedirectIdle
    /\ fs \in Directories({Filename(GranuleUrl(1))})
    /\ DownloadIdle
    /\ FilesIdle
    /\ PipelineIdle

NextDownload ==
    \E url \in DownloadUrls, resp \in Responses :
        CallDownloadGranule(url, resp) /\ UNCHANGED <<redirect_vars, files_vars, pipeline_vars>>

SpecDownload == InitDownload /\ [][NextDownload]_vars

InitFiles ==
    /\ RedirectIdle
    /\ DownloadIdle
    /\ FilesInit
    /\ fs \in Directories({Filename(g[1]) : g \in {files_url[i] : i \in 1..Len(files_url)}})
    /\ PipelineIdle

NextFiles ==
    \/ FilesReturn /\ UNCHANGED <<redirect_vars, pipeline_vars>>
    \/ \E resp \in Responses :
        FilesFirstAttempt(resp) /\ UNCHANGED <<redirect_vars, pipeline_vars>>
    \/ \E resp \in Responses :
        FilesRetry(resp) /\ UNCHANGED <<redirect_vars, pipeline_vars>>

SpecFiles == InitFiles /\ [][NextFiles]_vars

\* The dialog from its construction on, over MaxRuns runs: clicks on Run and
\* on Stop / Close at any time, each worker in its own thread.
InitDialog ==
    /\ RedirectIdle
    /\ fs = [n \in FileNames |-> NoFile]
    /\ DownloadIdle
    /\ FilesIdle
    /\ PipelineIdle

NextDialog ==
    \/ OnRunClicked
    \/ OnCancelClose
    \/ OnWorkerFinished
    \/ OnQuit
    \/ \E i \in Workers : SaveStreams(i)
    \/ \E i \in Workers : RedirectStreams(i)
    \/ \E i \in Workers : SeeCancelled(i)
    \/ \E i \in Workers : RunEnds(i)
    \/ \E i \in Workers : EmitFinishedSignal(i)
    \/ \E i \in Workers : RestoreStreams(i)
    \/ \E i \in Workers : ThreadEnds(i)

SpecDialog == InitDialog /\ [][NextDialog]_vars

\* ------------------------------------------------------------------ claims
Authorization == "Authorization"

\* the rebuild_auth call just made removed the credential header
Stripped(c) == Authorization \in c.headers /\ Authorization \notin c.result

\* C6: a redirect from the trusted auth host to a third-party host does not
\* carry the Authorization header on the follow-up request, and a redirect
\* that stays within the trusted auth host keeps it.
C6_AuthHostRedirectDropsCredential ==
    \A i \in 1..Len(rq_last) :
        LET c == rq_last[i] IN
        /\ (/\ Hostname(c.original) = AUTH_HOST
            /\ Hostname(c.redirect) # AUTH_HOST) => Authorization \notin c.result
        /\ (/\ Hostname(c.original) = AUTH_HOST
            /\ Hostname(c.redirect) = AUTH_HOST
            /\ Authorization \in c.headers) => Authorization \in c.result

C8_CompleteFileIsSkipped ==
    \A i \in 1..Len(dg_last) :
        LET c == dg_last[i] IN
        CompleteOnDisk(c) =>
            /\ c.ret = "true"
            /\ c.read = 0
            /\ c.ops = <<>>
            /\ c.after = c.before

\* two calls in a row for the same URL found the file complete
C8_Witness ==
    /\ dg_last # <<>>
    /\ dg_prev # <<>>
    /\ CompleteOnDisk(dg_last[1])
    /\ dg_prev[1].url = dg_last[1].url
    /\ dg_prev[1].complete
    /\ dg_prev[1].ret = "true"
    /\ dg_last[1].ret = "true"
    /\ dg_last[1].read = 0

\* C9 as stated: a stale file is deleted and the body downloaded again from
\* byte 0, and the resulting file size equals content-length (said of the
\* calls that return, true or false).
C9_StaleFileEndsComplete ==
    \A i \in 1..Len(dg_last) :
        LET c == dg_last[i] IN
        (StaleOnDisk(c) /\ c.ret # "raise") =>
            /\ c.ops # <<>>
            /\ c.ops[1] = "remove"
            /\ c.after.exists
            /\ GetSize(c.after) = c.resp.clen

\* C9 amended: a stale file is deleted and the body is written again from
\* byte 0 (no resume: no stale byte is kept and the file holds exactly the
\* bytes the body delivered); its size equals content-length whenever the call
\* returns true, and a complete response of another size makes it return
\* false.
C9_StaleFileIsReplaced ==
    \A i \in 1..Len(dg_last) :
        LET c == dg_last[i] IN
        StaleOnDisk(c) =>
            /\ Len(c.ops) >= 2
            /\ c.ops[1] = "remove"
            /\ c.ops[2] = "open_wb"
            /\ c.after.exists
            /\ \A k \in 1..GetSize(c.after) : c.after.bytes[k] = "net"
            /\ GetSize(c.after) = c.read
            /\ c.read = Sum(c.resp.chunks)
            /\ (c.ret = "true") => GetSize(c.after) = c.resp.clen
            /\ (c.resp.fault = "none" /\ GetSize(c.after) # c.resp.clen) => c.ret = "false"

\* a stale file was replaced by a complete download
C9_Witness ==
    /\ dg_last # <<>>
    /\ StaleOnDisk(dg_last[1])
    /\ GetSize(dg_last[1].before) > 0
    /\ dg_last[1].ret = "true"
    /\ GetSize(dg_last[1].after) = dg_last[1].resp.clen
    /\ dg_last[1].resp.clen > 0

\* C10: download_granule returns true only if the target file then exists with
\* size exactly the response's content-length; when the bytes written differ
\* from the expected size it returns false.
C10_TrueOnlyForCompleteFile ==
    \A i \in 1..Len(dg_last) :
        LET c == dg_last[i] IN
        /\ (c.ret = "true") =>
              /\ c.resp.ok
              /\ c.resp.clen # NoHeader
              /\ c.after.exists
              /\ GetSize(c.after) = c.resp.clen
              /\ fs[Filename(c.url)] = c.after
        /\ (/\ "open_wb" \in {c.ops[k] : k \in 1..Len(c.ops)}
            /\ c.resp.fault = "none"
            /\ c.read # c.resp.clen) => c.ret = "false"

\* bytes were written, fewer than expected, and the call returned false
C10_Witness ==
    /\ dg_last # <<>>
    /\ dg_last[1].read > 0
    /\ dg_last[1].read < dg_last[1].resp.clen
    /\ dg_last[1].after.exists
    /\ dg_last[1].ret = "false"

\* ---- run_pipeline
TypeError == "TypeError: 'int' object is not iterable"

\* run_pipeline is done with position j of all_granules
PipelineDoneWith(j) == p_i > j \/ pc \in {"returned", "raised", "emitted"}

\* C1: when the cancellation signal is set at the moment the loop reaches
\* granule j (after granule j-1 has finished all its steps), exactly granules
\* 1..j-1 have had work started, nothing is downloaded, subsetted or deleted
\* for granule j or any later one, the directory stays as it was at that
\* moment, and run_pipeline returns the full discovered list.
C1_CancelStopsAtGranuleBoundary ==
    \A j \in 1..Len(head_cancel) :
        head_cancel[j] = "set" =>
            /\ entered = 1..(j - 1)
            /\ \A m \in j..Len(all_granules) :
                /\ dl[m] = <<>>
                /\ sub[m] = "none"
                /\ ~removed[m]
                /\ m > j => head_cancel[m] = "unseen"
            /\ fs = fs_at_head
            /\ pc \in {"returned", "emitted"}
            /\ returned = <<all_granules>>
            /\ error = ""

\* granule 1 was downloaded and subsetted, the signal was set before granule 2
\* started, and the run ended with the full list and a success outcome
C1_Witness ==
    /\ Len(all_granules) >= 2
    /\ head_cancel[2] = "set"
    /\ dl[1] = <<"true">>
    /\ sub[1] = "ok"
    /\ returned = <<all_granules>>
    /\ pc = "emitted"
    /\ outcomes[1].success

\* C2: when download_granule returns false for a granule, run_pipeline retries
\* it 3 times, then logs and moves on: the run is not aborted by the failed
\* download and the later granules are still processed.
C2_FailedDownloadIsRetriedThenSkipped ==
    \A j \in 1..Len(dl) :
        (dl[j] # <<>> /\ dl[j][1] = "false") =>
            /\ error # TypeError
            /\ pc # "raised"
            /\ PipelineDoneWith(j) =>
                  ((\A k \in 1..Len(dl[j]) : dl[j][k] = "false") => Len(dl[j]) = 1 + RETRIES)

\* C5: a Subsetter failure on a granule, reported or raised, ends that granule
\* only: run_pipeline is not aborted by it, the download is not retried, and
\* the worker's outcome is not a failure caused by it.
C5_SubsetFailureEndsGranuleOnly ==
    \A j \in 1..Len(sub) :
        sub[j] \in {"fail", "raise"} =>
            /\ error # "subset failed"
            /\ Len(dl[j]) = 1
            /\ \A k \in 1..Len(outcomes) :
                  outcomes[k].error = "subset failed" => outcomes[k].success

\* ---- download_files
\* download_files is done with position i of the batch
FilesDoneWith(i) == df_i > i \/ df_pc \in {"returned", "raised"}

\* C3: in download_files every granule gets at least 1 and at most 4
\* download_granule calls, retrying stops at the first call that returns true,
\* exactly 4 calls are made when every call returns false, and only then does
\* the loop advance to the next granule, without raising.
C3_OneToFourAttemptsPerGranule ==
    /\ df_pc # "raised"
    /\ \A i \in 1..Len(df_attempts) :
        LET a == df_attempts[i] IN
        /\ Len(a) <= 1 + RETRIES
        /\ \A j \in 1..(Len(a) - 1) : a[j] # "true"
        /\ FilesDoneWith(i) =>
              /\ Len(a) >= 1
              /\ (\A j \in 1..Len(a) : a[j] = "false") => Len(a) = 1 + RETRIES

\* C4: a transport-level fault raised during one download_granule attempt is a
\* failed attempt that uses one unit of the retry budget; it never aborts
\* download_files and the remaining granules of the batch are still attempted.
C4_TransportFaultIsFailedAttempt ==
    (\E i \in 1..Len(df_attempts) :
        \E j \in 1..Len(df_attempts[i]) : df_attempts[i][j] = "raise")
    => /\ df_pc \in {"first", "retry", "returned"}
       /\ \A i \in 1..Len(df_attempts) : FilesDoneWith(i) => Len(df_attempts[i]) >= 1

\* ---- run_pipeline, granule by granule
Outcome == outcomes[1]
RawAtHead(j) == head_dir[j][1].raw
ArtifactAtHead(j) == head_dir[j][1].artifact

\* C11: a run with keep_original_file unset that discovered two granules, found
\* granule 1's raw file complete on disk (and no artifact of it) and downloaded
\* and subsetted granule 2
\* ends with success and exactly one artifact path in outputs, with granule 2's
\* raw file gone and granule 1's raw file still there as it was.
C11_EndToEndScenario ==
    (/\ pc = "emitted"
     /\ ~params.keep_original
     /\ Len(all_granules) = 2
     /\ head_dir[1] # <<>> /\ RawAtHead(1) = OldFile(MaxLen) /\ ~ArtifactAtHead(1)
     /\ head_dir[2] # <<>> /\ ~RawAtHead(2).exists /\ ~ArtifactAtHead(2)
     /\ dl[2] = <<"true">> /\ sub[2] = "ok")
    => /\ Outcome.success
       /\ Cardinality(Outcome.outputs) = 1
       /\ fs[RawName(all_granules[2])] = NoFile
       /\ fs[RawName(all_granules[1])] = RawAtHead(1)

\* C12: a granule whose artifact is in the output directory when its turn
\* comes is passed over: no download_granule call, no Subsetter call, no file
\* of it deleted or changed, and the loop is at a later granule.
C12_ExistingArtifactSkipsGranule ==
    \A j \in 1..Len(all_granules) :
        (j \in entered /\ ArtifactAtHead(j)) =>
            /\ dl[j] = <<>>
            /\ sub[j] = "none"
            /\ ~removed[j]
            /\ fs[RawName(all_granules[j])] = RawAtHead(j)
            /\ fs[ArtifactName(all_granules[j])].exists
            /\ p_i > j

\* granule 1 was passed over for its artifact and granule 2 went to download
C12_Witness ==
    /\ Len(all_granules) = 2
    /\ 1 \in entered /\ ArtifactAtHead(1) /\ RawAtHead(1).exists
    /\ dl[2] # <<>>

\* C13: with keep_original_file unset a granule's raw file is deleted only
\* after its download returned true and its subsetting succeeded, and once the
\* loop is past a granule whose subsetting succeeded its raw file is deleted.
C13_RawFileDeletedOnlyAfterSuccessfulSubset ==
    \A j \in 1..Len(all_granules) :
        /\ removed[j] => /\ ~params.keep_original
                         /\ dl[j] # <<>> /\ dl[j][Len(dl[j])] = "true"
                         /\ sub[j] = "ok"
        /\ (~params.keep_original /\ sub[j] = "ok" /\ p_i > j) => removed[j]

\* C14: granules are taken in find's order, one at a time: every step works on
\* the granule the loop is at, the loop only moves forward by one, nothing has
\* touched a granule the loop has not reached, and the Subsetter has run for a
\* granule only after a download_granule call for it returned true.
C14_StepsInOrder ==
    \A j \in 1..Len(all_granules) :
        /\ sub[j] # "none" => (dl[j] # <<>> /\ dl[j][Len(dl[j])] = "true")
        /\ dl[j] # <<>> => j \in entered
        /\ j > p_i => (j \notin entered /\ dl[j] = <<>> /\ sub[j] = "none" /\ ~removed[j])
        /\ j < p_i => j \in entered

C14_OneGranuleAtATime ==
    pc \notin {"find", "idle"} =>
        /\ p_i' \in {p_i, p_i + 1}
        /\ \A j \in 1..Len(all_granules) :
              (dl'[j] # dl[j] \/ sub'[j] # sub[j] \/ removed'[j] # removed[j]
                    \/ (j \in entered') # (j \in entered))
                => j = p_i

C14_InFindersOrderSubsetAfterDownload ==
    [](C14_StepsInOrder) /\ [][C14_OneGranuleAtATime]_vars

\* both granules were downloaded and subsetted, one after the other
C14_Witness ==
    /\ Len(all_granules) = 2
    /\ sub[1] # "none" /\ sub[2] # "none"
    /\ dl[1] = <<"true">> /\ dl[2] = <<"true">>

\* ---- the set-up of a run
\* C15: when a polygon file was supplied and could not be read, Finder.find is
\* never called (and so neither download_granule nor the Subsetter): the run
\* does not go on with the ROI that was passed in beside the file.
C15_UnreadablePolygonFailsFast ==
    (params.polygon_source # "" /\ ~roi_gdf) => find_roi = <<>>

\* C16: a run started from the dialog never reaches input() / getpass() in
\* _load_credentials.
C16_GuiNeverPrompts == ~prompted /\ pc # "prompt"

\* C17: the ROI the Finder and the Subsetter work with is the bounding box of
\* the selected features in selected-features mode with a selection, and the
\* extent of the whole layer (or of its source file) without one.
C17_SelectedFeaturesBoundTheRoi ==
    find_roi # <<>> =>
        IF params.selected_only /\ params.selection # "none"
        THEN find_roi[1].from = "selected"
        ELSE find_roi[1].from \in {"layer", "polygon"}

\* ---- the outcome of a run
\* the outcome emitted so far: none before the worker is through, one after,
\* (true, outputs, "") when run_pipeline returned and (false, [], message)
\* when an exception left the try block
C18_OneOutcome ==
    /\ Len(outcomes) <= 1
    /\ (pc = "emitted") <=> (Len(outcomes) = 1)
    /\ outcomes # <<>> =>
          IF returned # <<>>
          THEN /\ Outcome.success
               /\ Outcome.outputs = collect_outputs(fs)
               /\ Outcome.error = ""
               /\ error = ""
          ELSE /\ ~Outcome.success
               /\ Outcome.outputs = {}
               /\ Outcome.error = error
               /\ error # ""

\* C18: finished is emitted at most once, never with both outcomes, as
\* (true, outputs, "") after run_pipeline returned and as (false, [], message)
\* after an exception, and every run whose calls come back gets to emit it,
\* whatever step fails; the one place the worker can stay at for good is the
\* credential prompt.
C18_OutcomeEmittedExactlyOnce ==
    [](C18_OneOutcome) /\ <>(pc \in {"emitted", "prompt"})

\* the outcome of a run in which an exception left run_pipeline
C18_Witness ==
    /\ outcomes # <<>>
    /\ ~Outcome.success
    /\ find_roi # <<>>
    /\ returned = <<>>

\* C19: once the cancellation signal is set while run_pipeline is under way,
\* the worker ends with the outcome (true, outputs, ""), unless a download or
\* subset call that was in flight did not return but raised.
InRunPipeline == pc \in {"find", "loop", "download", "retry", "subset", "cleanup"}
CallRaised == error \in {"transport fault", "subset failed"}

C19_CancellationIsNotAnError ==
    (cancel_event /\ InRunPipeline)
        ~> (\/ CallRaised
            \/ /\ pc = "emitted"
               /\ returned # <<>>
               /\ Outcome.success
               /\ Outcome.error = "")

\* C20: a resolution error (no ROI layer, an empty or non-finite extent, an
\* output directory that cannot be created) ends the run with the outcome
\* (false, [], message) and without a call of Finder.find, download_granule
\* or the Subsetter.
ResolvedExtent(p) ==
    IF p.selected_only /\ p.selection # "none" THEN p.selection ELSE p.layer

ResolutionError(p) ==
    \/ p.layer = "none"
    \/ ResolvedExtent(p) \in {"empty", "nonfinite"}
    \/ p.out_dir = "uncreatable"

C20_ResolutionErrorFailsBeforeNetwork ==
    ResolutionError(params) =>
        /\ find_roi = <<>>
        /\ dl = <<>>
        /\ sub = <<>>
        /\ pc = "emitted" => (/\ ~Outcome.success
                              /\ Outcome.outputs = {}
                              /\ Outcome.error # "")

\* C21: with keep_original_file set, a granule whose download_granule call
\* returned true has its raw file in the output directory from then on, to the
\* end of the run, and the clean-up step has deleted no raw file.
C21_KeepOriginalKeepsRawFiles ==
    params.keep_original =>
        \A j \in 1..Len(all_granules) :
            /\ ~removed[j]
            /\ (dl[j] # <<>> /\ dl[j][Len(dl[j])] = "true") =>
                    /\ fs[RawName(all_granules[j])].exists
                    /\ GetSize(fs[RawName(all_granules[j])]) = MaxLen

\* a run with keep_original_file set has ended after downloading and subsetting
\* two granules
C21_Witness ==
    /\ params.keep_original
    /\ pc = "emitted"
    /\ Len(all_granules) = 2
    /\ dl[1] = <<"true">> /\ sub[1] = "ok"
    /\ dl[2] = <<"true">> /\ sub[2] = "ok"

\* C23: on_cancel_close closes the dialog (reject) exactly when no worker thread
\* is running; while one is running it sets the cancellation signal and leaves
\* the dialog open.
C23_ClosesIffNoThreadRunning ==
    [][(dialog_result' # dialog_result \/ cancel_event' # cancel_event) =>
            IF thread_running
            THEN cancel_event' /\ dialog_result' = "open"
            ELSE dialog_result' = "rejected" /\ cancel_event' = cancel_event]_vars

\* ---- download_granule, the early returns
LacksMarker(c) == \A i \in 1..Len(Filename(c.url)) : Filename(c.url)[i] # "GEDI"
Refused(c) ==
    /\ ~LacksMarker(c)
    /\ c.resp.fault = "none"
    /\ ~c.resp.ok \/ c.resp.clen = NoHeader

C26_EarlyReturn ==
    dg_calls' = dg_calls + 1 =>
        LET c == dg_last'[1] IN
        /\ LacksMarker(c) => (c.ret = "false" /\ ~c.requested)
        /\ (LacksMarker(c) \/ Refused(c)) =>
                /\ c.ret = "false"
                /\ c.ops = <<>>
                /\ c.read = 0
                /\ c.after = c.before
                /\ fs' = fs

\* C26: a download_granule call for a URL whose file name lacks "GEDI" returns
\* false without a request, and a call answered with a non-success status or
\* without content-length returns false without a file operation: the output
\* directory, an existing file at the target path included, is as it was.
C26_EarlyFailureLeavesDirectoryUnchanged == [][C26_EarlyReturn]_vars

\* one call was turned away for its file name and one was refused by the
\* server while a file was at the target path
C26_Witness ==
    /\ dg_last # <<>> /\ dg_prev # <<>>
    /\ LacksMarker(dg_last[1]) /\ ~dg_last[1].requested
    /\ dg_prev[1].url = GranuleUrl(1) /\ dg_prev[1].ret = "false"
    /\ fs[Filename(GranuleUrl(1))].exists

\* ---- the dialog over several runs
\* worker i is inside PipelineWorker.run: past line 51 and not yet through
\* the finally block
Executing(i) == wpc[i] \in {"redirect", "try", "emit", "finally"}

\* C22: two PipelineWorker.run executions never overlap: no worker is started
\* into run while another is still inside it, its finally block included.
C22_AtMostOneRunActive ==
    \A i, j \in Workers : i # j => ~(Executing(i) /\ Executing(j))

\* C24: the cancellation signal is clear when a run starts, and a run sees it
\* set only if a Stop click set it after that run was started.
C24_ClearAtStart == started' # started => ~cancel_event'

C24_SeenOnlyIfStoppedSince == observed \subseteq stop_since

C24_SignalClearWhenRunStarts ==
    [](C24_SeenOnlyIfStoppedSince) /\ [][C24_ClearAtStart]_vars

\* run 1 was stopped and saw it; run 2, started afterwards, ran to its end
\* without seeing a cancellation
C24_Witness ==
    /\ started = 2
    /\ 1 \in observed
    /\ 2 \notin observed
    /\ wpc[2] \in {"returned", "done"}

\* C25: once no worker is starting or inside run, sys.stdout is the stream the
\* host had before the first run.
C25_StreamsRestored ==
    (\A i \in Workers : wpc[i] \in {"idle", "returned", "done"}) => sys_stdout = <<>>

====
